---- MODULE Spec2Model ----
(***************************************************************************)
(* Model of src/main.py: a FastAPI application with one route, POST /chat, *)
(* backed by a model object loaded once while the module is imported.      *)
(*                                                                         *)
(* Text is a sequence of tokens.  User-supplied text is a sequence of      *)
(* one-character strings; a literal of the source is one token.            *)
(***************************************************************************)
EXTENDS Integers, Sequences, FiniteSets, TLC

\* ---------------------------------------------------------------- bounds
NumReq == 2
MaxLen == 2

Req == 1..NumReq
NoReq == 0

\* ---------------------------------------------------------------- text
Whitespace == {" "}
Chars == Whitespace \cup {"a"}

RECURSIVE SeqsUpTo(_)
SeqsUpTo(n) == IF n = 0 THEN {<<>>}
               ELSE SeqsUpTo(n - 1) \cup
                    {Append(s, c) : s \in {t \in SeqsUpTo(n - 1) : Len(t) = n - 1}, c \in Chars}

Messages == SeqsUpTo(MaxLen)

Digits == <<"0", "1", "2", "3", "4", "5", "6", "7", "8", "9">>

\* str(n) of a non-negative integer
RECURSIVE ToStr(_)
ToStr(n) == IF n < 10 THEN <<Digits[n + 1]>>
            ELSE ToStr(n \div 10) \o <<Digits[(n % 10) + 1]>>

RECURSIVE LStrip(_)
LStrip(s) == IF s = <<>> THEN s
             ELSE IF Head(s) \in Whitespace THEN LStrip(Tail(s)) ELSE s

RECURSIVE RStrip(_)
RStrip(s) == IF s = <<>> THEN s
             ELSE IF s[Len(s)] \in Whitespace THEN RStrip(SubSeq(s, 1, Len(s) - 1)) ELSE s

\* a handler that hands the raw message on
StripNone(s) == s

\* str.strip(): leading and trailing whitespace removed
Strip(s) == RStrip(LStrip(s))

\* ---------------------------------------------------------------- literals
EmptyDetail == <<"The 'message' field cannot be empty.">>
ErrPrefix == <<"Error generating response: ">>
LoadPrefix == <<"Failed to load LiteLLM model: ">>
ValidationDetail == <<"message">>
InternalServerError == <<"Internal Server Error">>

\* ---------------------------------------------------------------- request bodies
\* JSON bodies: the field absent, a number, or a string
IntVals == {7}
Bodies == {[kind |-> "missing", str |-> <<>>, num |-> 0]}
          \cup {[kind |-> "int", str |-> <<>>, num |-> n] : n \in IntVals}
          \cup {[kind |-> "str", str |-> s, num |-> 0] : s \in Messages}
NoBody == [kind |-> "none", str |-> <<>>, num |-> 0]

\* ---------------------------------------------------------------- the external library
Handles == {"model"}
None == "None"
LoadErrs == {<<"n", "o">>}
ErrTexts == {<<"b", "o", "o", "m">>}
StubFns == {"greet"}

\* the reply function of a stub
Apply(f, x) == IF f = "greet" THEN <<"h", "i", " ">> \o x ELSE x

\* what one call of generate_response may do: return f(arg), raise an
\* Exception with text e, return None, return a number
Behaviours == {[kind |-> "str", fn |-> f, text |-> <<>>, num |-> 0] : f \in StubFns}
              \cup {[kind |-> "raise", fn |-> "-", text |-> e, num |-> 0] : e \in ErrTexts}
              \cup {[kind |-> "none", fn |-> "-", text |-> <<>>, num |-> 0]}
              \cup {[kind |-> "int", fn |-> "-", text |-> <<>>, num |-> n] : n \in IntVals}
NoBehaviour == [kind |-> "-", fn |-> "-", text |-> <<>>, num |-> 0]

\* ---------------------------------------------------------------- outcomes
NoOutcome == [kind |-> "none", status |-> 0, text |-> <<>>]
Reply(s) == [kind |-> "reply", status |-> 200, text |-> s]
HTTPException(status_code, detail) == [kind |-> "error", status |-> status_code, text |-> detail]
\* an exception that leaves the handler: the server's generic 500
Fault == [kind |-> "fault", status |-> 500, text |-> InternalServerError]

VARIABLES
  phase,            \* position of the module's import: start, loaded, routed, serving, aborted
  lite_llm_model,   \* the module-level model object
  loadCalls,        \* calls of lite_llm.load_model
  startupError,     \* text of the RuntimeError that ended the import
  routes,           \* routes registered on app
  lax,              \* the installed pydantic coerces numbers to str
  running,          \* the request whose handler occupies the event loop
  pc,               \* per request: idle, validated, inferring, done
  body,             \* per request: the JSON body
  request,          \* per request: request.message after parsing
  calls,            \* per request: arguments of its generate_response calls
  ret,              \* per request: what generate_response did
  outcome           \* per request: the HTTP response

vars == <<phase, lite_llm_model, loadCalls, startupError, routes, lax, running,
          pc, body, request, calls, ret, outcome>>

startupVars == <<phase, lite_llm_model, loadCalls, startupError, routes, lax>>
reqVars == <<running, pc, body, request, calls, ret, outcome>>

Init ==
  /\ phase = "start"
  /\ lite_llm_model = None
  /\ loadCalls = 0
  /\ startupError = <<>>
  /\ routes = {}
  /\ lax \in BOOLEAN
  /\ running = NoReq
  /\ pc = [r \in Req |-> "idle"]
  /\ body = [r \in Req |-> NoBody]
  /\ request = [r \in Req |-> <<>>]
  /\ calls = [r \in Req |-> <<>>]
  /\ ret = [r \in Req |-> NoBehaviour]
  /\ outcome = [r \in Req |-> NoOutcome]

\* ---------------------------------------------------------------- startup
\* lite_llm.load_model() returns
LoadModelOk(h) ==
  /\ phase = "start"
  /\ loadCalls' = loadCalls + 1
  /\ lite_llm_model' = h
  /\ phase' = "loaded"
  /\ UNCHANGED <<startupError, routes, lax, reqVars>>

\* a loader that swallows the failure and goes on without a model
LoadModelFailSwallowed(e) ==
  /\ phase = "start"
  /\ loadCalls' = loadCalls + 1
  /\ phase' = "loaded"
  /\ UNCHANGED <<lite_llm_model, startupError, routes, lax, reqVars>>

\* lite_llm.load_model() raises: RuntimeError leaves the import
LoadModelFail(e) ==
  /\ phase = "start"
  /\ loadCalls' = loadCalls + 1
  /\ startupError' = LoadPrefix \o e
  /\ phase' = "aborted"
  /\ UNCHANGED <<lite_llm_model, routes, lax, reqVars>>

\* @app.post("/chat") runs after the assignment of lite_llm_model
RegisterRoute ==
  /\ phase = "loaded"
  /\ routes' = routes \cup {"/chat"}
  /\ phase' = "routed"
  /\ UNCHANGED <<lite_llm_model, loadCalls, startupError, lax, reqVars>>

\* the import completed: the server starts to serve app
Serve ==
  /\ phase = "routed"
  /\ phase' = "serving"
  /\ UNCHANGED <<lite_llm_model, loadCalls, startupError, routes, lax, reqVars>>

\* ---------------------------------------------------------------- a request
\* MessageRequest validation: message is a required str
Accepts(b) == b.kind = "str" \/ (b.kind = "int" /\ lax)
Parsed(b) == IF b.kind = "int" THEN ToStr(b.num) ELSE b.str

\* a POST /chat is accepted by the event loop and its body is parsed into a
\* MessageRequest, or refused with 422; requests are numbered as they arrive
Receive(r, b) ==
  /\ phase = "serving"
  /\ "/chat" \in routes
  /\ running = NoReq
  /\ pc[r] = "idle"
  /\ \A q \in Req : q < r => pc[q] # "idle"
  /\ body' = [body EXCEPT ![r] = b]
  /\ IF Accepts(b)
     THEN /\ request' = [request EXCEPT ![r] = Parsed(b)]
          /\ pc' = [pc EXCEPT ![r] = "validated"]
          /\ UNCHANGED outcome
     ELSE /\ outcome' = [outcome EXCEPT ![r] = HTTPException(422, ValidationDetail)]
          /\ pc' = [pc EXCEPT ![r] = "done"]
          /\ UNCHANGED request
  /\ UNCHANGED <<startupVars, running, calls, ret>>

\* ---------------------------------------------------------------- chat_endpoint
IsEmpty(s) == Len(s) = 0

EmptyInputError422 == HTTPException(422, EmptyDetail)

\* raise HTTPException(status_code=400, ...)
EmptyInputError == HTTPException(400, EmptyDetail)

InferenceErrorNoText(e) == HTTPException(500, ErrPrefix)

\* raise HTTPException(status_code=500, detail=f"Error generating response: {e}")
InferenceError(e) == HTTPException(500, ErrPrefix \o e)

\* MessageResponse(reply=generated_reply): reply is a required str
MessageResponse(b, arg) ==
  CASE b.kind = "str" -> Reply(Apply(b.fn, arg))
    [] b.kind = "int" -> IF lax THEN Reply(ToStr(b.num)) ELSE Fault
    [] OTHER -> Fault

\* a handler that stays broken once an inference has failed
RespondPoisoned(b, arg) ==
  IF b.kind = "raise" \/ \E q \in Req : pc[q] = "done" /\ ret[q].kind = "raise"
  THEN InferenceError(b.text)
  ELSE MessageResponse(b, arg)

\* a handler that answers from what earlier requests left behind
RespondStateful(b, arg) ==
  IF \E q \in Req : pc[q] = "done" /\ outcome[q].status = 200
  THEN Reply(<<>>)
  ELSE IF b.kind = "raise" THEN InferenceError(b.text) ELSE MessageResponse(b, arg)

\* the try/except around generate_response, then the return
Respond(b, arg) ==
  IF b.kind = "raise" THEN InferenceError(b.text) ELSE MessageResponse(b, arg)

\* a handler that calls the model before it looks at the message
HandlerEnterCallFirst(r) ==
  /\ running = NoReq
  /\ pc[r] = "validated"
  /\ calls' = [calls EXCEPT ![r] = Append(@, Strip(request[r]))]
  /\ IF IsEmpty(Strip(request[r]))
     THEN /\ outcome' = [outcome EXCEPT ![r] = EmptyInputError]
          /\ pc' = [pc EXCEPT ![r] = "done"]
          /\ UNCHANGED running
     ELSE /\ pc' = [pc EXCEPT ![r] = "inferring"]
          /\ running' = r
          /\ UNCHANGED outcome
  /\ UNCHANGED <<startupVars, body, request, ret>>

\* the handler starts on the event loop: strip, the empty check, and the
\* call of generate_response, which is not awaited and keeps the loop
HandlerEnter(r) ==
  /\ running = NoReq
  /\ pc[r] = "validated"
  /\ IF IsEmpty(Strip(request[r]))
     THEN /\ outcome' = [outcome EXCEPT ![r] = EmptyInputError]
          /\ pc' = [pc EXCEPT ![r] = "done"]
          /\ UNCHANGED <<calls, running>>
     ELSE /\ calls' = [calls EXCEPT ![r] = Append(@, Strip(request[r]))]
          /\ pc' = [pc EXCEPT ![r] = "inferring"]
          /\ running' = r
          /\ UNCHANGED outcome
  /\ UNCHANGED <<startupVars, body, request, ret>>

\* a handler that drops the model object when inference fails
InferReturnDropModel(r, b) ==
  /\ pc[r] = "inferring"
  /\ ret' = [ret EXCEPT ![r] = b]
  /\ outcome' = [outcome EXCEPT ![r] = Respond(b, calls[r][Len(calls[r])])]
  /\ pc' = [pc EXCEPT ![r] = "done"]
  /\ running' = NoReq
  /\ lite_llm_model' = IF b.kind = "raise" THEN None ELSE lite_llm_model
  /\ UNCHANGED <<phase, loadCalls, startupError, routes, lax, body, request, calls>>

\* generate_response returns or raises; the handler finishes
InferReturn(r, b) ==
  /\ pc[r] = "inferring"
  /\ ret' = [ret EXCEPT ![r] = b]
  /\ outcome' = [outcome EXCEPT ![r] = Respond(b, calls[r][Len(calls[r])])]
  /\ pc' = [pc EXCEPT ![r] = "done"]
  /\ running' = NoReq
  /\ UNCHANGED <<startupVars, body, request, calls>>

Next ==
  \/ \E h \in Handles : LoadModelOk(h)
  \/ \E e \in LoadErrs : LoadModelFail(e)
  \/ RegisterRoute
  \/ Serve
  \/ \E r \in Req, b \in Bodies : Receive(r, b)
  \/ \E r \in Req : HandlerEnter(r)
  \/ \E r \in Req, b \in Behaviours : InferReturn(r, b)

Spec == Init /\ [][Next]_vars

\* ---------------------------------------------------------------- properties
\* the trimmed form of a text, stated without recursion: the span from its
\* first to its last non-whitespace character
Inner(s) == {i \in 1..Len(s) : s[i] \notin Whitespace}
Min(S) == CHOOSE x \in S : \A y \in S : x <= y
Max(S) == CHOOSE x \in S : \A y \in S : x >= y
Trim(s) == IF Inner(s) = {} THEN <<>> ELSE SubSeq(s, Min(Inner(s)), Max(Inner(s)))

Done(r) == pc[r] = "done"
Accepted(r) == pc[r] # "idle"

\* C1: the route is registered, the service serves, and a request is
\* accepted only with the model loaded by the one call of the loader; when
\* the load fails the import ends in the startup error, no route is
\* registered and no request is ever accepted.
C1_ServableOnlyWithModel ==
  /\ (phase = "serving" \/ routes # {} \/ \E r \in Req : Accepted(r))
       => (lite_llm_model \in Handles /\ loadCalls = 1 /\ startupError = <<>>)
  /\ (\E r \in Req : Accepted(r)) => (phase = "serving" /\ "/chat" \in routes)
  /\ (phase = "aborted" \/ startupError # <<>>)
       => /\ phase = "aborted"
          /\ lite_llm_model = None
          /\ routes = {}
          /\ \A r \in Req : ~Accepted(r)
          /\ \E e \in LoadErrs : startupError = <<"Failed to load LiteLLM model: ">> \o e

C1_Witness == phase = "serving" /\ \E r \in Req : Done(r) /\ outcome[r].status = 200

\* C2: a request whose message trims to a non-empty text, answered by a
\* model that returns the string f(arg), gets 200 with reply f(trim(m)), and
\* the model was called once, with the trimmed message.
C2_ReplyOfTrimmed ==
  \A r \in Req :
    (Done(r) /\ body[r].kind = "str" /\ Trim(body[r].str) # <<>> /\ ret[r].kind = "str")
      => /\ outcome[r] = [kind |-> "reply", status |-> 200,
                          text |-> Apply(ret[r].fn, Trim(body[r].str))]
         /\ calls[r] = <<Trim(body[r].str)>>

C2_Witness ==
  \E r \in Req : /\ Done(r) /\ body[r].kind = "str" /\ ret[r].kind = "str"
                 /\ Trim(body[r].str) # <<>>
                 /\ Trim(body[r].str) # body[r].str
                 /\ outcome[r].status = 200

\* C3: a request whose message is empty or only whitespace gets 400 with
\* the detail "The 'message' field cannot be empty.".
C3_EmptyIs400 ==
  \A r \in Req :
    (Done(r) /\ body[r].kind = "str" /\ Trim(body[r].str) = <<>>)
      => outcome[r] = [kind |-> "error", status |-> 400,
                       text |-> <<"The 'message' field cannot be empty.">>]

C3_Witness ==
  \E r \in Req : /\ Done(r) /\ body[r].kind = "str" /\ Len(body[r].str) > 0
                 /\ Trim(body[r].str) = <<>>
                 /\ outcome[r].status = 400

\* C4: when the inference call raises an error with text e, the request
\* gets 500 with the detail "Error generating response: " followed by e.
C4_InferenceErrorDetail ==
  \A r \in Req :
    (Done(r) /\ ret[r].kind = "raise")
      => outcome[r] = [kind |-> "error", status |-> 500,
                       text |-> <<"Error generating response: ">> \o ret[r].text]

C4_Witness ==
  \E r \in Req : /\ Done(r) /\ ret[r].kind = "raise" /\ ret[r].text # <<>>
                 /\ outcome[r].status = 500

\* C5: a request answered with a 4xx status, for a malformed body or for a
\* message that trims to empty, has no call of the model to its name.
C5_RejectedNeverCallsModel ==
  \A r \in Req :
    (Done(r) /\ outcome[r].status \in 400..499)
      => (calls[r] = <<>> /\ ret[r] = NoBehaviour)

C5_Witness ==
  /\ \E r \in Req : Done(r) /\ body[r].kind = "missing" /\ outcome[r].status = 422
  /\ \E r \in Req : Done(r) /\ body[r].kind = "str" /\ outcome[r].status = 400

\* C6: no request ends in an unhandled fault: every answer is 200 with a
\* reply or a designated error, and a reply that is not a string is answered
\* as an inference error.
C6_NoUnhandledFault ==
  \A r \in Req :
    Done(r) =>
      /\ outcome[r].kind \in {"reply", "error"}
      /\ ret[r].kind \in {"none", "int"}
           => (outcome[r].status = 500 /\ outcome[r].kind = "error"
               /\ SubSeq(outcome[r].text, 1, 1) = <<"Error generating response: ">>)

\* C7: two requests with the same body, for which the model did the same
\* thing, get the same answer, in whatever order they were handled.
C7_Deterministic ==
  \A r1, r2 \in Req :
    (Done(r1) /\ Done(r2) /\ body[r1] = body[r2] /\ ret[r1] = ret[r2])
      => outcome[r1] = outcome[r2]

C7_Witness ==
  \E r1, r2 \in Req : /\ r1 # r2 /\ Done(r1) /\ Done(r2)
                      /\ body[r1] = body[r2] /\ ret[r1] = ret[r2]
                      /\ ret[r1].kind = "str"

\* C8: while one request waits inside its inference call, every other
\* request can take its next step: be accepted, be validated, be answered.
C8_NoBlocking ==
  \A r \in Req :
    pc[r] = "inferring" =>
      \A o \in Req \ {r} :
        /\ (pc[o] = "idle" /\ \A q \in Req : q < o => pc[q] # "idle")
             => ENABLED (\E b \in Bodies : Receive(o, b))
        /\ pc[o] = "validated" => ENABLED HandlerEnter(o)

\* C9: the model object is written once, by the one call of the loader, and
\* no step after that changes it.
C9_HandleWrittenOnce ==
  [][/\ loadCalls' <= 1
     /\ lite_llm_model # lite_llm_model'
          => (phase = "start" /\ lite_llm_model = None /\ loadCalls = 0 /\ loadCalls' = 1)
     /\ phase # "start" => (lite_llm_model' = lite_llm_model /\ loadCalls' = loadCalls)]_vars

C9_Witness ==
  /\ lite_llm_model \in Handles
  /\ \E r \in Req : Done(r) /\ outcome[r].status = 200
  /\ \E r \in Req : Done(r) /\ outcome[r].status = 500

\* C10: a failed inference call touches nothing but its own request: the
\* step leaves the model object, the service and every other request as
\* they were and frees the event loop, and with a failure on record the
\* service still serves and the other requests are answered as they are
\* without one.
Failed(r) == Done(r) /\ ret[r].kind = "raise"

C10_Step ==
  \A r \in Req :
    (pc[r] = "inferring" /\ Failed(r)')
      => /\ lite_llm_model' = lite_llm_model
         /\ phase' = phase
         /\ routes' = routes
         /\ running' = NoReq
         /\ \A o \in Req \ {r} :
              /\ pc'[o] = pc[o]
              /\ body'[o] = body[o]
              /\ request'[o] = request[o]
              /\ calls'[o] = calls[o]
              /\ outcome'[o] = outcome[o]

C10_State ==
  (\E r \in Req : Failed(r)) =>
    /\ phase = "serving"
    /\ "/chat" \in routes
    /\ lite_llm_model \in Handles
    /\ \A o \in Req :
         /\ (Done(o) /\ ret[o].kind = "str")
              => (outcome[o].status = 200 /\ outcome[o].text = Apply(ret[o].fn, calls[o][1]))
         /\ (Done(o) /\ body[o].kind = "str" /\ Trim(body[o].str) = <<>>)
              => outcome[o].status = 400

C10_FailureIsolation == []C10_State /\ [][C10_Step]_vars

C10_Witness ==
  \E r, o \in Req : /\ Failed(r) /\ Done(o) /\ ret[o].kind = "str"
                    /\ outcome[o].status = 200
====
